---- MODULE Spec2Model ----
(***************************************************************************)
(* cuco::bucket_storage / cuco::bucket_storage_ref                         *)
(* (include/cuco/detail/storage/bucket_storage.inl).                       *)
(*                                                                         *)
(* The host owns one bucket_storage; device work lives in per-stream FIFO  *)
(* queues.  Addresses are counted in slots (value_type): adding k to a     *)
(* bucket_type* moves the address by k * bucket_size slots.                *)
(***************************************************************************)
EXTENDS Integers, Sequences, FiniteSets, TLC

\* ------------------------------------------------------------- bounds
MaxBucketSize == 2
MaxBuckets == 3
NumStreams == 2
MaxLaunch == 2
\* threads per block (cuco::detail::default_block_size()), scaled down so
\* that the thread interleavings of a launch can be enumerated
default_block_size == 2

\* ---------------------------------------------------------- constants
cg_size == 1
stride == 4
Uninit == 0
NullPtr == 0

BucketSizes == 1..MaxBucketSize
Extents == 0..MaxBuckets
Streams == 1..NumStreams
\* sentinel values: the code only copies and compares them
Keys == {1, 2}
Errors == {"bad_alloc", "cuda_error"}

VARIABLES
  bucket_size,   \* template parameter BucketSize
  owner,         \* "none" | "live" | "failed" | "destroyed"
  extent_,       \* storage_base<Extent>::extent_ (a number of buckets)
  allocator_,    \* the owner's copy of the allocator
  deleter_size,  \* the count bucket_deleter_ was constructed with
  buckets_,      \* unique_ptr<bucket_type, deleter>: the base pointer
  outstanding,   \* allocator: allocations not yet deallocated
  allocLog,      \* allocator: successful allocate(count) calls
  deallocLog,    \* allocator: deallocate(ptr, count) calls
  thrown,        \* allocator: the failure allocate raised
  error,         \* what the caller of the constructor caught
  mem,           \* device memory: slot address -> value
  queue,         \* stream -> FIFO of kernels
  launched,      \* fill kernels launched by the owner
  hostpc,        \* the host thread's position
  refs,          \* the bucket_storage_ref values handed out
  lastInit,      \* caller: the latest initialize*(key, stream) call
  unsynced,      \* caller: streams initialised and not synchronised since
  conflict,      \* kernels of different streams overlapped on the buffer
  uaf,           \* a fill kernel wrote outside live memory
  safeDestroy,   \* the owner was destroyed with no stream unsynchronised
  verified,      \* outcome of the last verification kernel
  lastFill       \* per-slot write counts of the last finished fill

vars == <<bucket_size, owner, extent_, allocator_, deleter_size, buckets_,
          outstanding, allocLog, deallocLog, thrown, error, mem, queue,
          launched, hostpc, refs, lastInit, unsynced, conflict, uaf,
          safeDestroy, verified, lastFill>>

\* ------------------------------------------------ bucket_storage_base
num_buckets == extent_
capacity == extent_ * bucket_size
bucket_extent == extent_

\* cuco::detail::grid_size(num, cg_size, stride, block_size)
grid_size(num, cg, str) ==
  (cg * num + str * default_block_size - 1) \div (str * default_block_size)

\* bucket_type* + k, as a slot address
BucketPtrAdd(p, k) == p + k * bucket_size

Idle == [op |-> "idle", stream |-> 0, key |-> 0, clean |-> FALSE, blocked |-> FALSE]
NoInit == [stream |-> 0, key |-> 0]
NoVerify == [ran |-> FALSE, ok |-> FALSE, excl |-> FALSE, behind |-> FALSE]
NoFill == [ran |-> FALSE, writes |-> <<>>]
EmptyMem == [a \in {} |-> Uninit]

Init ==
  /\ bucket_size \in BucketSizes
  /\ owner = "none"
  /\ extent_ = 0
  /\ allocator_ = "none"
  /\ deleter_size = 0
  /\ buckets_ = NullPtr
  /\ outstanding = 0
  /\ allocLog = <<>>
  /\ deallocLog = <<>>
  /\ thrown = "none"
  /\ error = "none"
  /\ mem = EmptyMem
  /\ queue = [s \in Streams |-> <<>>]
  /\ launched = 0
  /\ hostpc = Idle
  /\ refs = {}
  /\ lastInit = NoInit
  /\ unsynced = {}
  /\ conflict = FALSE
  /\ uaf = FALSE
  /\ safeDestroy = FALSE
  /\ verified = NoVerify
  /\ lastFill = NoFill

\* ------------------------------------------------------- construction
\* memory the allocator can hand out, aligned for a bucket
Addrs == {4 * bucket_size}

\* faulty variant: the deleter is given the bucket count
DeleterCountBuckets == num_buckets
\* bucket_deleter_{capacity(), allocator_}
DeleterCount == capacity

\* allocator_.allocate(capacity())
AllocCount == capacity

\* bucket_storage(size, allocator), allocate succeeding with pointer p
bucket_storage(size, p) ==
  /\ owner = "none"
  /\ UNCHANGED bucket_size
  /\ extent_' = size
  /\ allocator_' = "A"
  /\ deleter_size' = DeleterCount'
  /\ allocLog' = Append(allocLog, [ptr |-> p, count |-> AllocCount'])
  /\ outstanding' = outstanding + 1
  /\ buckets_' = p
  /\ mem' = [a \in p..(BucketPtrAdd(p, AllocCount') - 1) |-> Uninit]
  /\ owner' = "live"
  /\ UNCHANGED <<deallocLog, thrown, error, queue, launched, hostpc, refs,
                 lastInit, unsynced, conflict, uaf, safeDestroy, verified,
                 lastFill>>

\* faulty variant: the failure surfaces after memory was taken
bucket_storage_leaks(size, e) ==
  /\ owner = "none"
  /\ thrown' = e
  /\ error' = e
  /\ owner' = "failed"
  /\ outstanding' = outstanding + 1
  /\ UNCHANGED <<bucket_size, extent_, allocator_, deleter_size, buckets_,
                 allocLog, deallocLog, mem, queue, launched, hostpc, refs,
                 lastInit, unsynced, conflict, uaf, safeDestroy, verified,
                 lastFill>>

\* bucket_storage(size, allocator), allocate raising e: the members built so
\* far (base, allocator_, bucket_deleter_) are destroyed, e reaches the caller
bucket_storage_throws(size, e) ==
  /\ owner = "none"
  /\ thrown' = e
  /\ error' = e
  /\ owner' = "failed"
  /\ UNCHANGED <<bucket_size, extent_, allocator_, deleter_size, buckets_,
                 outstanding, allocLog, deallocLog, mem, queue, launched,
                 hostpc, refs, lastInit, unsynced, conflict, uaf, safeDestroy,
                 verified, lastFill>>

\* ---------------------------------------------------------- accessors
data == buckets_
allocator == allocator_

\* faulty variant: the pointer is left value-initialised
bucket_storage_ref_null(size, buckets) == [extent_ |-> size, buckets_ |-> NullPtr]
\* bucket_storage_ref(size, buckets): stores both verbatim
bucket_storage_ref(size, buckets) == [extent_ |-> size, buckets_ |-> buckets]

\* bucket_storage::ref()
ref == bucket_storage_ref(bucket_extent, data)

\* bucket_storage_ref: data(), capacity() of the base, end(), operator[]
ref_data(r) == r.buckets_
ref_capacity(r) == r.extent_ * bucket_size
end(r) == BucketPtrAdd(ref_data(r), ref_capacity(r))
index(r, i) == [k \in 0..(bucket_size - 1) |-> mem[BucketPtrAdd(ref_data(r), i) + k]]

HostReady == hostpc.op \in {"idle", "returned"}

TakeRef ==
  /\ HostReady
  /\ owner = "live"
  /\ refs' = refs \cup {ref}
  /\ UNCHANGED <<bucket_size, owner, extent_, allocator_, deleter_size,
                 buckets_, outstanding, allocLog, deallocLog, thrown, error,
                 mem, queue, launched, hostpc, lastInit, unsynced, conflict,
                 uaf, safeDestroy, verified, lastFill>>

\* a ref is trivially copyable and trivially destructible: copying yields an
\* equal value, dropping one touches nothing but the handle
CopyRef(r) ==
  /\ r \in refs
  /\ refs' = refs \cup {bucket_storage_ref(r.extent_, r.buckets_)}
  /\ UNCHANGED <<bucket_size, owner, extent_, allocator_, deleter_size,
                 buckets_, outstanding, allocLog, deallocLog, thrown, error,
                 mem, queue, launched, hostpc, lastInit, unsynced, conflict,
                 uaf, safeDestroy, verified, lastFill>>

DropRef(r) ==
  /\ r \in refs
  /\ refs' = refs \ {r}
  /\ UNCHANGED <<bucket_size, owner, extent_, allocator_, deleter_size,
                 buckets_, outstanding, allocLog, deallocLog, thrown, error,
                 mem, queue, launched, hostpc, lastInit, unsynced, conflict,
                 uaf, safeDestroy, verified, lastFill>>

\* ----------------------------------------------------- initialization
HasFill(q) == \E i \in 1..Len(q) : q[i].kind = "fill"
HasVerify(q) == \E i \in 1..Len(q) : q[i].kind = "verify"
OthersBusy(s) == \E s2 \in Streams \ {s} : queue[s2] # <<>>
OthersFilling(s) == \E s2 \in Streams \ {s} : HasFill(queue[s2])

\* faulty variants: no early return; early return for one bucket too
SkipLaunchNever == FALSE
SkipLaunchOffByOne == num_buckets <= 1
\* if (this->num_buckets() == 0) { return; }
SkipLaunch == num_buckets = 0

\* faulty variant: the last bucket is left out
KernelNShort == num_buckets - 1
\* second kernel argument: this->num_buckets()
KernelN == num_buckets

\* faulty variant: the launch ignores the stream it was given
LaunchStreamDefault(s) == 1
\* <<<grid_size, default_block_size(), 0, stream.get()>>>
LaunchStream(s) == s

\* detail::initialize<<<grid, block>>>(data(), num_buckets(), key): one thread
\* per (block, lane), thread t starting at bucket index t (0-based)
FillKernel(key) ==
  LET threads == grid_size(num_buckets, cg_size, stride) * default_block_size
  IN  [kind |-> "fill", id |-> launched + 1, key |-> key, buckets |-> data,
       n |-> KernelN, idx |-> [t \in 1..threads |-> t - 1],
       writes |-> [i \in 0..(capacity - 1) |-> 0],
       excl |-> FALSE, behind |-> FALSE]

\* a kernel queued on another stream is no longer ordered against the new one
Overlapped(q) == [i \in 1..Len(q) |-> [q[i] EXCEPT !.excl = FALSE]]

\* the body of initialize_async(key, stream)
AsyncBody(key, s) ==
  /\ owner = "live"
  /\ lastInit' = [stream |-> s, key |-> key]
  /\ unsynced' = unsynced \cup {s}
  /\ IF SkipLaunch
     THEN UNCHANGED <<queue, launched, conflict>>
     ELSE /\ launched < MaxLaunch
          /\ queue' = [s2 \in Streams |->
                        IF s2 = LaunchStream(s)
                        THEN Append(queue[s2], FillKernel(key))
                        ELSE Overlapped(queue[s2])]
          /\ launched' = launched + 1
          /\ conflict' = OthersBusy(s)
  /\ UNCHANGED <<bucket_size, owner, extent_, allocator_, deleter_size,
                 buckets_, outstanding, allocLog, deallocLog, thrown, error,
                 mem, refs, uaf, safeDestroy, verified, lastFill>>

\* initialize_async(key, stream): returns without waiting
initialize_async(key, s) ==
  /\ HostReady
  /\ AsyncBody(key, s)
  /\ hostpc' = Idle

\* faulty variant: initialize does not wait
wait_skipped(s) == TRUE
\* stream.wait(): the host blocks until the stream has drained
wait(s) == queue[s] = <<>>

\* initialize(key, stream): this->initialize_async(key, stream), then the host
\* sits in stream.wait()
initialize(key, s) ==
  /\ HostReady
  /\ AsyncBody(key, s)
  /\ hostpc' = [op |-> "wait", stream |-> s, key |-> key,
                clean |-> ~OthersFilling(s), blocked |-> queue[s] # <<>>]

\* initialize(key, stream) returns once stream.wait() does
initialize_return ==
  /\ hostpc.op = "wait"
  /\ wait(hostpc.stream)
  /\ hostpc' = [hostpc EXCEPT !.op = "returned"]
  /\ unsynced' = unsynced \ {hostpc.stream}
  /\ UNCHANGED <<bucket_size, owner, extent_, allocator_, deleter_size,
                 buckets_, outstanding, allocLog, deallocLog, thrown, error,
                 mem, queue, launched, refs, lastInit, conflict, uaf,
                 safeDestroy, verified, lastFill>>

\* ----------------------------------------------------------- the caller
\* the caller synchronises a stream (returns once it has drained)
StreamSync(s) ==
  /\ HostReady
  /\ queue[s] = <<>>
  /\ s \in unsynced
  /\ unsynced' = unsynced \ {s}
  /\ hostpc' = Idle
  /\ UNCHANGED <<bucket_size, owner, extent_, allocator_, deleter_size,
                 buckets_, outstanding, allocLog, deallocLog, thrown, error,
                 mem, queue, launched, refs, lastInit, conflict, uaf,
                 safeDestroy, verified, lastFill>>

\* the caller submits, on the stream it last initialised, a kernel that reads
\* every slot through a ref and asserts it equals the sentinel (one such
\* kernel pending at a time)
SubmitVerify(s) ==
  /\ HostReady
  /\ owner = "live"
  /\ lastInit.stream = s
  /\ \A s2 \in Streams : ~HasVerify(queue[s2])
  /\ queue' = [queue EXCEPT ![s] = Append(@,
                 [kind |-> "verify", id |-> 0, key |-> lastInit.key,
                  buckets |-> ref_data(ref), n |-> ref.extent_,
                  idx |-> <<>>, writes |-> <<>>,
                  excl |-> ~conflict /\ ~OthersFilling(s),
                  behind |-> HasFill(queue[s])])]
  /\ hostpc' = Idle
  /\ UNCHANGED <<bucket_size, owner, extent_, allocator_, deleter_size,
                 buckets_, outstanding, allocLog, deallocLog, thrown, error,
                 mem, launched, refs, lastInit, unsynced, conflict, uaf,
                 safeDestroy, verified, lastFill>>

\* -------------------------------------------------------- destruction
\* ~bucket_storage(): buckets_ runs bucket_deleter_, which calls
\* allocator.deallocate(ptr, size); nothing is launched or awaited
destroy ==
  /\ HostReady
  /\ owner = "live"
  /\ deallocLog' = Append(deallocLog, [ptr |-> buckets_, count |-> deleter_size])
  /\ outstanding' = outstanding - 1
  /\ mem' = EmptyMem
  /\ owner' = "destroyed"
  /\ safeDestroy' = (unsynced = {})
  /\ hostpc' = Idle
  /\ UNCHANGED <<bucket_size, extent_, allocator_, deleter_size, buckets_,
                 allocLog, thrown, error, queue, launched, refs, lastInit,
                 unsynced, conflict, uaf, verified, lastFill>>

\* ------------------------------------------------------------- device
Running(s, kind) == queue[s] # <<>> /\ Head(queue[s]).kind = kind

\* one iteration of thread t's grid-stride loop: while (idx < n) { fill the
\* bucket at buckets + idx; idx += loop_stride; }
FillStep(s, t) ==
  /\ Running(s, "fill")
  /\ LET k == Head(queue[s])
         first == BucketPtrAdd(k.buckets, k.idx[t])
         slots == first..(first + bucket_size - 1)
         offs == {a - k.buckets : a \in slots}
     IN  /\ t \in DOMAIN k.idx
         /\ k.idx[t] < k.n
         /\ IF slots \subseteq DOMAIN mem
            THEN /\ mem' = [a \in DOMAIN mem |-> IF a \in slots THEN k.key ELSE mem[a]]
                 /\ UNCHANGED uaf
            ELSE /\ uaf' = TRUE
                 /\ UNCHANGED mem
         /\ queue' = [queue EXCEPT ![s] = <<[k EXCEPT
                        !.idx[t] = @ + Len(k.idx),
                        !.writes = [i \in DOMAIN @ |-> IF i \in offs THEN @[i] + 1 ELSE @[i]]
                      ]>> \o Tail(queue[s])]
  /\ UNCHANGED <<bucket_size, owner, extent_, allocator_, deleter_size,
                 buckets_, outstanding, allocLog, deallocLog, thrown, error,
                 launched, hostpc, refs, lastInit, unsynced, conflict,
                 safeDestroy, verified, lastFill>>

\* every thread has left its loop: the kernel is complete, the stream moves on
FillExit(s) ==
  /\ Running(s, "fill")
  /\ LET k == Head(queue[s])
     IN  /\ \A t \in DOMAIN k.idx : k.idx[t] >= k.n
         /\ lastFill' = [ran |-> TRUE, writes |-> k.writes]
  /\ queue' = [queue EXCEPT ![s] = Tail(@)]
  /\ UNCHANGED <<bucket_size, owner, extent_, allocator_, deleter_size,
                 buckets_, outstanding, allocLog, deallocLog, thrown, error,
                 mem, launched, hostpc, refs, lastInit, unsynced, conflict,
                 uaf, safeDestroy, verified>>

\* the verification kernel runs: a slot that is uninitialised or freed reads
\* as any value
VerifyRun(s) ==
  /\ Running(s, "verify")
  /\ LET k == Head(queue[s])
         slots == k.buckets..(BucketPtrAdd(k.buckets, k.n) - 1)
         defined == {a \in slots \cap DOMAIN mem : mem[a] # Uninit}
         outcomes == IF \E a \in defined : mem[a] # k.key THEN {FALSE}
                     ELSE IF defined # slots THEN BOOLEAN
                     ELSE {TRUE}
     IN  \E ok \in outcomes :
           verified' = [ran |-> TRUE, ok |-> ok,
                        excl |-> k.excl /\ owner = "live", behind |-> k.behind]
  /\ queue' = [queue EXCEPT ![s] = Tail(@)]
  /\ UNCHANGED <<bucket_size, owner, extent_, allocator_, deleter_size,
                 buckets_, outstanding, allocLog, deallocLog, thrown, error,
                 mem, launched, hostpc, refs, lastInit, unsynced, conflict,
                 uaf, safeDestroy, lastFill>>

DeviceStep(s) ==
  \/ \E t \in 1..(MaxBuckets + default_block_size) : FillStep(s, t)
  \/ FillExit(s)
  \/ VerifyRun(s)

\* ------------------------------------------------------ specification
Next ==
  \/ \E size \in Extents, p \in Addrs : bucket_storage(size, p)
  \/ \E size \in Extents, e \in Errors : bucket_storage_throws(size, e)
  \/ TakeRef
  \/ \E r \in refs : CopyRef(r)
  \/ \E r \in refs : DropRef(r)
  \/ \E key \in Keys, s \in Streams : initialize_async(key, s)
  \/ \E key \in Keys, s \in Streams : initialize(key, s)
  \/ initialize_return
  \/ \E s \in Streams : StreamSync(s)
  \/ \E s \in Streams : SubmitVerify(s)
  \/ destroy
  \/ \E s \in Streams : DeviceStep(s)

Spec == Init /\ [][Next]_vars

\* a stream runs the kernels queued on it: each stream keeps making progress
FairSpec == Spec /\ \A s \in Streams : WF_vars(DeviceStep(s))

\* ------------------------------------------------------------- claims
Slots == {data + i : i \in 0..(capacity - 1)}

\* C1: when initialize(s, stream) returns (no fill of another stream being in
\* flight during the call), every slot i in [0, capacity) equals s, and every
\* slot of ref()[b] equals s for every bucket index b in [0, num_buckets),
\* whatever the slots held before and however the fill's threads interleaved.
InitializeFillsAll ==
  (hostpc.op = "returned" /\ hostpc.clean) =>
    /\ \A a \in Slots : mem[a] = hostpc.key
    /\ \A b \in 0..(num_buckets - 1) :
         \A k \in 0..(bucket_size - 1) : index(ref, b)[k] = hostpc.key

InitializeFillsAllWitness ==
  /\ hostpc.op = "returned"
  /\ hostpc.clean
  /\ num_buckets > 1
  /\ launched > 1

\* C2: a verification kernel submitted on stream S after initialize_async(s, S),
\* and not overlapped by work of another stream, finds every slot equal to s:
\* its assertion does not fire.
StreamOrdered == (verified.ran /\ verified.excl) => verified.ok

StreamOrderedWitness ==
  /\ verified.ran
  /\ verified.excl
  /\ verified.behind
  /\ verified.ok
  /\ num_buckets > 1

\* C3 (as stated): with num_buckets = 0 neither call launches a kernel, and
\* initialize never waits on work already pending on the stream.
ZeroCapacityReturnsImmediately ==
  (owner = "live" /\ num_buckets = 0) =>
    /\ launched = 0
    /\ ~(hostpc.op = "wait" /\ queue[hostpc.stream] # <<>>)

\* C3 (amended): with num_buckets = 0 neither call launches a kernel and
\* data() and the extent stay what construction made them; initialize_async
\* returns at once, initialize returns only once the stream has drained.
ZeroCapacityLaunchesNothing ==
  (owner = "live" /\ num_buckets = 0) =>
    /\ launched = 0
    /\ \A s \in Streams : ~HasFill(queue[s])
    /\ data = allocLog[1].ptr
    /\ capacity = 0
    /\ hostpc.op = "returned" => queue[hostpc.stream] = <<>>

ZeroCapacityWitness ==
  /\ owner = "live"
  /\ num_buckets = 0
  /\ hostpc.op = "returned"
  /\ hostpc.blocked

\* C4: deallocate is called exactly once, at destruction and not before, with
\* the pointer allocate returned and the count allocate was given; destruction
\* launches no kernel; copying or dropping a ref calls nothing.
AllocationPaired ==
  /\ [](/\ owner \in {"none", "live", "failed"} => deallocLog = <<>>
        /\ owner = "destroyed" => deallocLog = <<allocLog[1]>>
        /\ Len(allocLog) <= 1)
  /\ [][/\ (owner = "live" /\ owner' = "destroyed") =>
             (launched' = launched /\ queue' = queue)
        /\ refs' # refs => (deallocLog' = deallocLog /\ allocLog' = allocLog)]_vars

AllocationPairedWitness ==
  /\ owner = "destroyed"
  /\ deallocLog[1].count > 1
  /\ launched > 0
  /\ refs # {}

\* C5: when allocate fails, the caller gets the allocator's failure unchanged,
\* no object exists, deallocate is never called, nothing is launched and the
\* allocator's outstanding count is what it was before.
AllocationFailureClean ==
  owner = "failed" =>
    /\ error = thrown
    /\ error \in Errors
    /\ buckets_ = NullPtr
    /\ allocator_ = "none"
    /\ allocLog = <<>>
    /\ deallocLog = <<>>
    /\ outstanding = 0
    /\ launched = 0
    /\ \A s \in Streams : queue[s] = <<>>

AllocationFailureWitness == owner = "failed" /\ error = "cuda_error"

\* C6 (as stated): end() is one past the last slot: slot offset capacity from
\* the base pointer viewed as a slot pointer.
EndIsOnePastLastSlot ==
  \A r \in refs : end(r) = ref_data(r) + ref_capacity(r)

\* C7 (as stated): the count passed to allocate, in buckets, times BucketSize
\* equals capacity (an array of num_buckets buckets).
AllocatesCapacitySlots ==
  owner = "live" =>
    /\ allocLog[1].count * bucket_size = capacity
    /\ allocLog[1].count = num_buckets

\* C8: num_buckets, capacity and data() never change while the owner lives,
\* and every ref() handed out has the owner's data() and num_buckets.
GeometryFixed ==
  /\ [](owner = "live" =>
          /\ data = allocLog[1].ptr
          /\ \A r \in refs : ref_data(r) = data /\ r.extent_ = num_buckets)
  /\ [][(owner = "live" /\ owner' = "live") =>
          /\ num_buckets' = num_buckets
          /\ capacity' = capacity
          /\ data' = data]_vars

GeometryFixedWitness ==
  /\ owner = "live"
  /\ refs # {}
  /\ launched > 1
  /\ hostpc.op = "returned"
  /\ num_buckets > 0

\* C9: in one launch of the fill no slot is written twice (by one thread or
\* by two), a finished launch has written every slot of the storage exactly
\* once, and every launch that starts running finishes.
Fills == {k \in UNION {{queue[s][i] : i \in 1..Len(queue[s])} : s \in Streams} :
            k.kind = "fill"}

FillWritesOnce ==
  /\ [](/\ \A k \in Fills : \A i \in DOMAIN k.writes : k.writes[i] <= 1
        /\ lastFill.ran =>
             /\ DOMAIN lastFill.writes = 0..(capacity - 1)
             /\ \A i \in DOMAIN lastFill.writes : lastFill.writes[i] = 1)
  /\ \A s \in Streams : \A id \in 1..MaxLaunch :
       (Running(s, "fill") /\ Head(queue[s]).id = id)
         ~> ~(Running(s, "fill") /\ Head(queue[s]).id = id)

FillWritesOnceWitness ==
  /\ lastFill.ran
  /\ num_buckets > default_block_size
  /\ bucket_size > 1

\* C10: if the owner is destroyed only after every stream on which it was
\* initialised has been synchronised (initialize returning counts), no fill
\* kernel writes to the buffer after deallocate.
NoWriteAfterFree == safeDestroy => ~uaf

NoWriteAfterFreeWitness ==
  /\ owner = "destroyed"
  /\ safeDestroy
  /\ launched > 1
  /\ lastInit.stream # 0

\* the owner does not synchronise by itself: destroyed with a fill in flight,
\* the fill writes freed memory
UnsyncedDestroyIsSafe == ~uaf
====
